---------------------------- MODULE Spec2Model ----------------------------
(***************************************************************************)
(* Model of src/app/utils/gcpUploader.ts: the credential resolver run at   *)
(* module initialisation and the exported object operations, each split at *)
(* its await points.  The storage backend is the environment: every        *)
(* request either takes effect or fails, chosen nondeterministically.      *)
(*                                                                         *)
(* Strings are sequences of tokens.  "." and "/" are the two characters    *)
(* path.extname / path.basename look at; every other token stands for a    *)
(* run of ordinary characters.                                             *)
(***************************************************************************)
EXTENDS Naturals, Sequences, FiniteSets, TLC

VARIABLES env, storage, moduleError, bucket, objects, today, uuidCount, calls

vars == <<env, storage, moduleError, bucket, objects, today, uuidCount, calls>>

----------------------------------------------------------------------------
(* Bounds of the model *)

MaxCalls == 2       \* concurrent operation calls in the main specification
MaxLen == 3         \* longest original filename, in tokens, in SpecNames
MaxDay == 1         \* how many times midnight (UTC) may pass

Calls == 1..MaxCalls

----------------------------------------------------------------------------
(* Strings *)

DOT == "."
SLASH == "/"

RECURSIVE StringsUpTo(_, _)
StringsUpTo(alphabet, n) ==
    IF n = 0 THEN {<<>>}
    ELSE LET shorter == StringsUpTo(alphabet, n - 1)
         IN  shorter \cup {Append(s, ch) : s \in shorter, ch \in alphabet}

Max(S) == CHOOSE x \in S : \A y \in S : y <= x

(* The end of the last path portion: the index after the last character    *)
(* that is not a trailing "/" (0 when there is none).                      *)
PartEnd(p) ==
    LET nonSlash == {i \in 1..Len(p) : p[i] # SLASH}
    IN  IF nonSlash = {} THEN 0 ELSE Max(nonSlash)

(* The (0-based) start of the last path portion. *)
PartStart(p) ==
    LET slashes == {i \in 1..PartEnd(p) : p[i] = SLASH}
    IN  IF slashes = {} THEN 0 ELSE Max(slashes)

(* path.extname: from the last "." of the last portion to its end; empty   *)
(* when there is no ".", when the only "." is the portion's first          *)
(* character, or when the portion is "..".                                 *)
ExtName(p) ==
    LET end == PartEnd(p)
        startPart == PartStart(p)
        dots == {i \in (startPart + 1)..end : p[i] = DOT}
        startDot == IF dots = {} THEN 0 ELSE Max(dots)       \* 1-based
        preDotState ==
            IF startDot = 0 \/ startDot = startPart + 1 THEN 0
            ELSE IF p[startPart + 1] = DOT THEN 1 ELSE 2      \* 2 stands for -1
    IN  IF startDot = 0 \/ end = 0 \/ preDotState = 0
           \/ (preDotState = 1 /\ startDot = end /\ startDot = startPart + 2)
        THEN <<>>
        ELSE SubSeq(p, startDot, end)

IsSuffix(x, s) ==
    Len(x) <= Len(s) /\ SubSeq(s, Len(s) - Len(x) + 1, Len(s)) = x

(* path.basename(p, suffix), for a suffix no longer than the last portion  *)
(* (the only use: suffix = ExtName(p)): the last portion, without `suffix` *)
(* when the portion ends with it and is longer than it.                    *)
BaseName(p, suffix) ==
    LET part == SubSeq(p, PartStart(p) + 1, PartEnd(p))
    IN  IF suffix = p /\ Len(suffix) > 0 THEN <<>>
        ELSE IF Len(suffix) > 0 /\ Len(suffix) < Len(part) /\ IsSuffix(suffix, part)
        THEN SubSeq(part, 1, Len(part) - Len(suffix))
        ELSE part

----------------------------------------------------------------------------
(* Program constants and the strings the code builds *)

bucketName == <<"revault-files">>

ConnectionFailed == <<"Google Cloud Storage connection failed">>
FileNotFound == <<"File was not found after upload">>
PictureNotFound == <<"Profile picture was not found after upload">>
PdfPrefix == <<"Failed to upload PDF file: ">>
PicturePrefix == <<"Failed to upload profile picture: ">>

(* Errors the collaborators raise, by message. *)
ApiError == <<"ApiError">>
NotFoundError == <<"No such object">>
ConflictError == <<"Bucket already exists">>
SyntaxError == <<"SyntaxError: Unexpected token in JSON">>

PublicBinding == [role |-> "roles/storage.objectViewer", members |-> {"allUsers"}]
OwnerBinding == [role |-> "roles/storage.legacyBucketOwner", members |-> {"projectOwner"}]

(* uuidv4(): the n-th identifier the generator hands out; RFC 4122         *)
(* identifiers are unique, so each call returns one not returned before.   *)
UuidPool == <<"uuid-1", "uuid-2", "uuid-3", "uuid-4", "uuid-5", "uuid-6">>
uuidv4(n) == UuidPool[n]

(* new Date().toISOString().split('T')[0]: the UTC calendar day. *)
DatePool == <<"2024-01-15", "2024-01-16", "2024-01-17", "2024-01-18">>
IsoDate(day) == DatePool[day + 1]

UniqueFilenameNoUuid(file, uuid) ==
    BaseName(file, ExtName(file)) \o <<"-">> \o ExtName(file)

(* `${baseName}-${uuidv4()}${fileExtension}` *)
UniqueFilename(file, uuid) ==
    BaseName(file, ExtName(file)) \o <<"-", uuid>> \o ExtName(file)

(* `papers/${timestamp}/${uniqueFilename}` *)
PaperPath(file, day, uuid) ==
    <<"papers", SLASH, IsoDate(day), SLASH>> \o UniqueFilename(file, uuid)

(* `profiles/${userId}/${uniqueFilename}` *)
ProfilePath(file, user, uuid) ==
    <<"profiles", SLASH>> \o user \o <<SLASH>> \o UniqueFilename(file, uuid)

(* `profiles/${userId}/${filename}` of deleteProfilePicture *)
DeletePath(user, filename) == <<"profiles", SLASH>> \o user \o <<SLASH>> \o filename

PublicUrlNoBucket(filepath) == <<"https://storage.googleapis.com/">> \o filepath

(* `https://storage.googleapis.com/${bucketName}/${filepath}` *)
PublicUrl(filepath) ==
    <<"https://storage.googleapis.com/">> \o bucketName \o <<SLASH>> \o filepath

----------------------------------------------------------------------------
(* Credential resolution (module initialisation) *)

BlobStates == {"absent", "valid", "malformed"}

Envs ==
    [dev : BOOLEAN, keyFile : BOOLEAN, blob : BlobStates,
     projectId : BOOLEAN, clientEmail : BOOLEAN, privateKey : BOOLEAN]

SelectBranchBlobFirst(e) ==
    IF e.blob # "absent" THEN 2
    ELSE IF e.dev /\ e.keyFile THEN 1
    ELSE IF e.projectId /\ e.clientEmail /\ e.privateKey THEN 3
    ELSE 4

(* The if / else-if chain. *)
SelectBranch(e) ==
    IF e.dev /\ e.keyFile THEN 1
    ELSE IF e.blob # "absent" THEN 2
    ELSE IF e.projectId /\ e.clientEmail /\ e.privateKey THEN 3
    ELSE 4

JsonParseLenient(blob) == FALSE

(* JSON.parse(Buffer.from(blob, 'base64').toString('utf-8')) throws. *)
JsonParseThrows(blob) == blob = "malformed"

NoError == <<>>

(* try { ... } catch (error) { console.error(...); throw error; } *)
Resolve ==
    /\ storage.state = "unset"
    /\ LET branch == SelectBranch(env)
           thrown == branch = 2 /\ JsonParseThrows(env.blob)
       IN  /\ storage' = [state |-> IF thrown THEN "failed" ELSE "ready",
                          branch |-> branch]
           /\ moduleError' = IF thrown THEN SyntaxError ELSE NoError
    /\ UNCHANGED <<env, bucket, objects, today, uuidCount, calls>>

----------------------------------------------------------------------------
(* Calls of the exported operations.  A call is at `pc`, the backend        *)
(* request it awaits; `log` is the requests it has had answered, in order,  *)
(* each <<request, outcome>>; `result` is what it returned or raised.       *)

Pending == [kind |-> "none", val |-> <<>>]
Returned(kind, val) == [kind |-> kind, val |-> val]
Raised(msg) == [kind |-> "raised", val |-> msg]
Bool(b) == IF b THEN <<"true">> ELSE <<"false">>

Idle ==
    [op |-> "none", pc |-> "idle", file |-> <<>>, user |-> <<>>, key |-> <<>>,
     day |-> 0, log |-> <<>>, result |-> Pending]

Invoke(op, pc, file, user, key) ==
    [op |-> op, pc |-> pc, file |-> file, user |-> user, key |-> key,
     day |-> 0, log |-> <<>>, result |-> Pending]

Answered(r, request, outcome) == [r EXCEPT !.log = Append(@, <<request, outcome>>)]
Finish(r, result) == [r EXCEPT !.pc = "done", !.result = result]
Await(r, pc) == [r EXCEPT !.pc = pc]

IsUpload(op) == op \in {"uploadFile", "uploadProfilePicture"}

CanCall(c) == storage.state = "ready" /\ calls[c].pc = "idle"

(* What a backend request may answer: it fails, or it succeeds. *)
Outcomes == {"ok", "error"}

(* catch (error) { ...; throw new Error(`Failed to upload ...: ${error.message}`) } *)
UploadCatch(r, msg) ==
    Finish(r, Raised((IF r.op = "uploadFile" THEN PdfPrefix ELSE PicturePrefix) \o msg))

ConnectionGateOpen(connectionOk) == TRUE

(* if (!connectionOk) throw ...: whether the upload goes on. *)
ConnectionGate(connectionOk) == connectionOk

(* testConnection has returned `ok` to the call: to its caller when it was  *)
(* called directly; else the upload throws, or builds the object key and    *)
(* issues file.save.                                                        *)
AfterTestConnection(r, ok) ==
    IF r.op = "testConnection" THEN Finish(r, Returned("bool", Bool(ok)))
    ELSE IF ~ConnectionGate(ok) THEN UploadCatch(r, ConnectionFailed)
    ELSE [r EXCEPT !.pc = "save",
                   !.day = today,
                   !.key = IF r.op = "uploadFile"
                           THEN PaperPath(r.file, today, uuidv4(uuidCount + 1))
                           ELSE ProfilePath(r.file, r.user, uuidv4(uuidCount + 1))]

TestConnectionStep(c, r) ==
    /\ calls' = [calls EXCEPT ![c] = r]
    /\ uuidCount' = IF r.pc = "save" THEN uuidCount + 1 ELSE uuidCount
    /\ UNCHANGED <<env, storage, moduleError, bucket, objects, today>>

OnlyCalls(c, r) ==
    /\ calls' = [calls EXCEPT ![c] = r]
    /\ UNCHANGED <<env, storage, moduleError, bucket, objects, today, uuidCount>>

(* ---- testConnection ---- *)

CallTestConnection(c) ==
    /\ CanCall(c)
    /\ OnlyCalls(c, Invoke("testConnection", "getBuckets", <<>>, <<>>, <<>>))

(* await storage.getBuckets() *)
GetBuckets(c) ==
    /\ calls[c].pc = "getBuckets"
    /\ \E o \in Outcomes :
         LET r == Answered(calls[c], "getBuckets", o)
         IN  TestConnectionStep(c, IF o = "ok" THEN Await(r, "bucketExists")
                                   ELSE AfterTestConnection(r, FALSE))

(* await bucket.exists(); if (!exists) return false *)
BucketExists(c) ==
    /\ calls[c].pc = "bucketExists"
    /\ \E o \in {Bool(bucket.exists)[1], "error"} :
         LET r == Answered(calls[c], "bucket.exists", o)
         IN  TestConnectionStep(c, IF o = "true" THEN Await(r, "bucketMetadata")
                                   ELSE AfterTestConnection(r, FALSE))

(* await bucket.getMetadata(); return true *)
BucketGetMetadata(c) ==
    /\ calls[c].pc = "bucketMetadata"
    /\ \E o \in Outcomes :
         LET r == Answered(calls[c], "bucket.getMetadata", o)
         IN  TestConnectionStep(c, AfterTestConnection(r, o = "ok"))

(* ---- uploadFile, uploadProfilePicture ---- *)

(* const connectionOk = await testConnection() *)
CallUploadFile(c, file) ==
    /\ CanCall(c)
    /\ OnlyCalls(c, Invoke("uploadFile", "getBuckets", file, <<>>, <<>>))

CallUploadProfilePicture(c, file, user) ==
    /\ CanCall(c)
    /\ OnlyCalls(c, Invoke("uploadProfilePicture", "getBuckets", file, user, <<>>))

Put(key, writer) ==
    [k \in DOMAIN objects \cup {key} |-> IF k = key THEN writer ELSE objects[k]]

(* await file.save(buffer, {...}): the object is written under the key, by  *)
(* this call, replacing whatever was stored there.                          *)
FileSave(c) ==
    /\ calls[c].pc = "save"
    /\ \E o \in (IF bucket.exists THEN Outcomes ELSE {"error"}) :
         LET r == Answered(calls[c], "file.save", o)
         IN  /\ calls' = [calls EXCEPT ![c] = IF o = "ok" THEN Await(r, "fileExists")
                                              ELSE UploadCatch(r, ApiError)]
             /\ objects' = IF o = "ok" THEN Put(r.key, c) ELSE objects
    /\ UNCHANGED <<env, storage, moduleError, bucket, today, uuidCount>>

VerifyGateOpen(exists) == TRUE

(* if (!exists) throw ...: whether the upload goes on. *)
VerifyGate(exists) == exists

(* const [exists] = await file.exists().  The backend answers what it       *)
(* holds, or fails, or reports the object absent.                           *)
FileExists(c) ==
    /\ calls[c].pc = "fileExists"
    /\ \E o \in {Bool(calls[c].key \in DOMAIN objects)[1], "false", "error"} :
         LET r == Answered(calls[c], "file.exists", o)
         IN  OnlyCalls(c, IF o = "error" THEN UploadCatch(r, ApiError)
                          ELSE IF VerifyGate(o = "true") THEN Await(r, "fileMetadata")
                          ELSE UploadCatch(r, IF r.op = "uploadFile" THEN FileNotFound
                                              ELSE PictureNotFound))

(* const [metadata] = await file.getMetadata(); return publicUrl *)
FileGetMetadata(c) ==
    /\ calls[c].pc = "fileMetadata"
    /\ \E o \in (IF calls[c].key \in DOMAIN objects THEN Outcomes ELSE {"error"}) :
         LET r == Answered(calls[c], "file.getMetadata", o)
         IN  OnlyCalls(c, IF o = "ok" THEN Finish(r, Returned("url", PublicUrl(r.key)))
                          ELSE UploadCatch(r, ApiError))

(* ---- deleteProfilePicture ---- *)

CallDeleteProfilePicture(c, user, filename) ==
    /\ CanCall(c)
    /\ OnlyCalls(c, Invoke("deleteProfilePicture", "delete", filename, user,
                           DeletePath(user, filename)))

DeleteCatchRethrow(r, msg) == Finish(r, Raised(msg))

(* catch (error) { console.error(...); return false; } *)
DeleteCatch(r, msg) == Finish(r, Returned("bool", Bool(FALSE)))

(* await file.delete(); return true.  Deleting an object that is not there  *)
(* is answered 404.                                                         *)
FileDelete(c) ==
    /\ calls[c].pc = "delete"
    /\ \E o \in (IF calls[c].key \in DOMAIN objects THEN Outcomes ELSE {"notFound"}) :
         LET r == Answered(calls[c], "file.delete", o)
         IN  /\ calls' = [calls EXCEPT ![c] =
                    IF o = "ok" THEN Finish(r, Returned("bool", Bool(TRUE)))
                    ELSE DeleteCatch(r, IF o = "notFound" THEN NotFoundError ELSE ApiError)]
             /\ objects' = IF o = "ok"
                           THEN [k \in DOMAIN objects \ {r.key} |-> objects[k]]
                           ELSE objects
    /\ UNCHANGED <<env, storage, moduleError, bucket, today, uuidCount>>

(* ---- makeBucketPublic, createBucketIfNotExists ---- *)

CallMakeBucketPublic(c) ==
    /\ CanCall(c)
    /\ OnlyCalls(c, Invoke("makeBucketPublic", "setPolicy", <<>>, <<>>, <<>>))

CallCreateBucketIfNotExists(c) ==
    /\ CanCall(c)
    /\ OnlyCalls(c, Invoke("createBucketIfNotExists", "checkBucket", <<>>, <<>>, <<>>))

BucketCatchSwallow(r, msg) == Finish(r, Returned("void", <<>>))

(* catch (error) { console.error(...); throw error; } *)
BucketCatch(r, msg) == Finish(r, Raised(msg))

(* const [exists] = await bucket.exists(); if (!exists) {...} else {...} *)
CheckBucket(c) ==
    /\ calls[c].pc = "checkBucket"
    /\ \E o \in {Bool(bucket.exists)[1], "error"} :
         LET r == Answered(calls[c], "bucket.exists", o)
         IN  OnlyCalls(c, IF o = "error" THEN BucketCatch(r, ApiError)
                          ELSE IF o = "false" THEN Await(r, "createBucket")
                          ELSE Finish(r, Returned("void", <<>>)))

(* await storage.createBucket(bucketName, {..., uniformBucketLevelAccess:   *)
(* {enabled: true}}); await makeBucketPublic().  A new bucket starts with   *)
(* the backend's default bindings; creating an existing one is answered 409.*)
CreateBucket(c) ==
    /\ calls[c].pc = "createBucket"
    /\ \E o \in (IF bucket.exists THEN {"conflict"} ELSE Outcomes) :
         LET r == Answered(calls[c], "createBucket", o)
         IN  /\ calls' = [calls EXCEPT ![c] =
                    IF o = "ok" THEN Await(r, "setPolicy")
                    ELSE BucketCatch(r, IF o = "conflict" THEN ConflictError ELSE ApiError)]
             /\ bucket' = IF o = "ok"
                          THEN [exists |-> TRUE, uniform |-> TRUE, bindings |-> {OwnerBinding}]
                          ELSE bucket
    /\ UNCHANGED <<env, storage, moduleError, objects, today, uuidCount>>

SetPolicyAdditive(bindings) == bindings \cup {PublicBinding}

(* bucket.iam.setPolicy({bindings: [{role: objectViewer, members: [allUsers]}]}) *)
SetPolicy(bindings) == {PublicBinding}

(* await bucket.iam.setPolicy(...), in makeBucketPublic, called directly or *)
(* by createBucketIfNotExists, whose catch re-throws what it threw.         *)
IamSetPolicy(c) ==
    /\ calls[c].pc = "setPolicy"
    /\ \E o \in (IF bucket.exists THEN Outcomes ELSE {"error"}) :
         LET r == Answered(calls[c], "iam.setPolicy", o)
         IN  /\ calls' = [calls EXCEPT ![c] =
                    IF o = "ok" THEN Finish(r, Returned("void", <<>>))
                    ELSE BucketCatch(r, ApiError)]
             /\ bucket' = IF o = "ok"
                          THEN [bucket EXCEPT !.bindings = SetPolicy(@)]
                          ELSE bucket
    /\ UNCHANGED <<env, storage, moduleError, objects, today, uuidCount>>

(* ---- listBucketFiles, listFilesByFolder ---- *)

CallListBucketFiles(c) ==
    /\ CanCall(c)
    /\ OnlyCalls(c, Invoke("listBucketFiles", "getFiles", <<>>, <<>>, <<>>))

CallListFilesByFolder(c, folderPrefix) ==
    /\ CanCall(c)
    /\ OnlyCalls(c, Invoke("listFilesByFolder", "getFiles", folderPrefix, <<>>, <<>>))

(* await bucket.getFiles(...); the names are printed; a failure is logged. *)
GetFiles(c) ==
    /\ calls[c].pc = "getFiles"
    /\ \E o \in (IF bucket.exists THEN Outcomes ELSE {"error"}) :
         OnlyCalls(c, Finish(Answered(calls[c], "getFiles", o), Returned("void", <<>>)))

(* ---- the clock ---- *)

Tick ==
    /\ today < MaxDay
    /\ today' = today + 1
    /\ UNCHANGED <<env, storage, moduleError, bucket, objects, uuidCount, calls>>

----------------------------------------------------------------------------
(* Inputs *)

Report == <<"report", DOT, "pdf">>
Avatar == <<"avatar", DOT, "PNG">>
MainNames == {Report, Avatar}
AllNames == StringsUpTo({"a", DOT, SLASH}, MaxLen)

User == <<"u123">>
Users == {User}
NamesUsers == {User, <<"team", SLASH, "u7">>}

OldPicture == <<"old", DOT, "png">>
GonePicture == <<"gone", DOT, "png">>
OldPaper == <<"papers", SLASH, "2024-01-14", SLASH, "report", "-", "uuid-0", DOT, "pdf">>

(* The filenames a caller may ask to delete for `user`: one stored before   *)
(* the process started, one that is not stored, and those now stored.       *)
DeleteNames(user) ==
    {OldPicture, GonePicture}
      \cup {SubSeq(k, Len(user) + 4, Len(k)) :
              k \in {x \in DOMAIN objects : /\ Len(x) >= Len(user) + 3
                                            /\ SubSeq(x, 1, Len(user) + 3)
                                                 = DeletePath(user, <<>>)}}

Folders == {<<"papers", SLASH>>, <<"profiles", SLASH>>}

(* The process environments of the main specification: no key file, no     *)
(* discrete values; the blob is absent (ambient credentials) or malformed.  *)
MainEnvs == {e \in Envs : /\ ~e.dev /\ ~e.keyFile /\ ~e.projectId
                           /\ ~e.clientEmail /\ ~e.privateKey
                           /\ e.blob # "valid"}
AmbientEnvs == {e \in MainEnvs : e.blob = "absent"}

ExistingBucket == [exists |-> TRUE, uniform |-> TRUE, bindings |-> {OwnerBinding}]
NoBucket == [exists |-> FALSE, uniform |-> FALSE, bindings |-> {}]
StoredBefore == {DeletePath(User, OldPicture), OldPaper}

----------------------------------------------------------------------------
(* Specifications *)

InitWith(envs, slots) ==
    /\ env \in envs
    /\ storage = [state |-> "unset", branch |-> 0]
    /\ moduleError = NoError
    /\ bucket \in {ExistingBucket, NoBucket}
    /\ objects = IF bucket.exists THEN [k \in StoredBefore |-> 0] ELSE [k \in {} |-> 0]
    /\ today = 0
    /\ uuidCount = 0
    /\ calls = [c \in slots |-> Idle]

Uploads(c, names, users) ==
    \/ \E f \in names : CallUploadFile(c, f)
    \/ \E f \in names, u \in users : CallUploadProfilePicture(c, f, u)

UploadSteps(c) ==
    \/ GetBuckets(c)
    \/ BucketExists(c)
    \/ BucketGetMetadata(c)
    \/ FileSave(c)
    \/ FileExists(c)
    \/ FileGetMetadata(c)

Housekeeping(c, users) ==
    \/ CallTestConnection(c)
    \/ \E u \in users : \E f \in DeleteNames(u) : CallDeleteProfilePicture(c, u, f)
    \/ CallMakeBucketPublic(c)
    \/ CallCreateBucketIfNotExists(c)
    \/ CallListBucketFiles(c)
    \/ \E p \in Folders : CallListFilesByFolder(c, p)

HousekeepingSteps(c) ==
    \/ FileDelete(c)
    \/ CheckBucket(c)
    \/ CreateBucket(c)
    \/ IamSetPolicy(c)
    \/ GetFiles(c)

(* The main specification: MaxCalls calls, interleaved at their awaits. *)
Init == InitWith(MainEnvs, Calls)

Next ==
    \/ Resolve
    \/ \E c \in Calls :
         \/ Uploads(c, MainNames, Users)
         \/ UploadSteps(c)
         \/ Housekeeping(c, Users)
         \/ HousekeepingSteps(c)

Spec == Init /\ [][Next]_vars

(* One upload of any filename of up to MaxLen tokens. *)
InitNames == InitWith(AmbientEnvs, {1})

NextNames ==
    \/ Resolve
    \/ Tick
    \/ Uploads(1, AllNames, NamesUsers)
    \/ UploadSteps(1)

SpecNames == InitNames /\ [][NextNames]_vars

(* Every process environment, and one call of any operation. *)
InitStartup == InitWith(Envs, {1})

NextStartup ==
    \/ Resolve
    \/ Uploads(1, {Report}, Users)
    \/ UploadSteps(1)
    \/ Housekeeping(1, Users)
    \/ HousekeepingSteps(1)

SpecStartup == InitStartup /\ [][NextStartup]_vars

----------------------------------------------------------------------------
(* What a call's log shows *)

Slots == DOMAIN calls

Has(r, request, outcome) == \E i \in 1..Len(r.log) : r.log[i] = <<request, outcome>>
Requested(r, request) == \E i \in 1..Len(r.log) : r.log[i][1] = request
BackendFailure(r) ==
    \E i \in 1..Len(r.log) : r.log[i][2] \in {"error", "conflict", "notFound"}
BackendReachable(r) == \A i \in 1..Len(r.log) : r.log[i][2] \in {"ok", "true"}

ConnectivityFailed(r) ==
    \/ Has(r, "getBuckets", "error")
    \/ Has(r, "bucket.exists", "false")
    \/ Has(r, "bucket.exists", "error")
    \/ Has(r, "bucket.getMetadata", "error")

ConnectivityPassed(r) ==
    /\ Len(r.log) >= 3
    /\ SubSeq(r.log, 1, 3) = << <<"getBuckets", "ok">>, <<"bucket.exists", "true">>,
                                <<"bucket.getMetadata", "ok">> >>

PrefixOf(op) == IF op = "uploadFile" THEN PdfPrefix ELSE PicturePrefix
WrittenBy(c) == {k \in DOMAIN objects : objects[k] = c}
KeyBuilt(r) == IsUpload(r.op) /\ r.key # <<>>

----------------------------------------------------------------------------
(* C1: in uploadFile and uploadProfilePicture, when the connectivity check  *)
(* returned false the call has failed with the connection error, has issued *)
(* no save and has written no object; and a save is issued only after the  *)
(* call's own connectivity check returned true.                             *)
C1_ConnectivityGate ==
    \A c \in Slots :
      LET r == calls[c]
      IN  IsUpload(r.op) =>
            /\ ConnectivityFailed(r) =>
                 /\ r.pc = "done"
                 /\ r.result = Raised(PrefixOf(r.op) \o ConnectionFailed)
                 /\ ~Requested(r, "file.save")
                 /\ WrittenBy(c) = {}
            /\ (r.pc = "save" \/ Requested(r, "file.save")) => ConnectivityPassed(r)

C1_Witness ==
    \E c \in Slots :
      /\ IsUpload(calls[c].op)
      /\ Has(calls[c], "bucket.exists", "false")
      /\ calls[c].pc = "done"

(* C2: when the save succeeded and the existence check that follows says    *)
(* absent, the upload has failed with the verification error; a URL is      *)
(* returned only after the existence check after the save said present.     *)
C2_VerifyAfterSave ==
    \A c \in Slots :
      LET r == calls[c]
      IN  IsUpload(r.op) =>
            /\ (Has(r, "file.save", "ok") /\ Has(r, "file.exists", "false")) =>
                 /\ r.pc = "done"
                 /\ r.result = Raised(PrefixOf(r.op) \o
                        (IF r.op = "uploadFile" THEN FileNotFound ELSE PictureNotFound))
            /\ r.result.kind = "url" =>
                 \E i, j \in 1..Len(r.log) :
                    /\ i < j
                    /\ r.log[i] = <<"file.save", "ok">>
                    /\ r.log[j] = <<"file.exists", "true">>

C2_Witness ==
    \E c \in Slots :
      /\ calls[c].op = "uploadFile"
      /\ Has(calls[c], "file.save", "ok")
      /\ Has(calls[c], "file.exists", "false")
      /\ calls[c].pc = "done"

(* C3: upload calls, interleaved in any way, build pairwise distinct keys,  *)
(* none of them a key stored before; an object an upload saved is not       *)
(* overwritten, and only a delete removes or changes a stored object; an    *)
(* upload whose backend requests all succeeded returns its URL.             *)
C3_KeysDistinct ==
    /\ \A c, d \in Slots :
         (c # d /\ KeyBuilt(calls[c]) /\ KeyBuilt(calls[d])) => calls[c].key # calls[d].key
    /\ \A c \in Slots : KeyBuilt(calls[c]) => calls[c].key \notin StoredBefore
    /\ \A k \in StoredBefore \cap DOMAIN objects : objects[k] = 0
    /\ \A c \in Slots :
         (Has(calls[c], "file.save", "ok") /\ calls[c].key \in DOMAIN objects)
            => objects[calls[c].key] = c
    /\ \A c \in Slots :
         (IsUpload(calls[c].op) /\ calls[c].pc = "done" /\ BackendReachable(calls[c]))
            => /\ calls[c].result = Returned("url", PublicUrl(calls[c].key))
               /\ Has(calls[c], "file.save", "ok")

C3_OnlyDeleteRemoves ==
    \A k \in DOMAIN objects :
       (k \notin DOMAIN objects' \/ objects'[k] # objects[k])
          => \E c \in Slots : calls[c].pc = "delete" /\ calls[c].key = k
                              /\ calls'[c].pc = "done"

(* C3: uploads of the same filename are independent: in every state the    *)
(* keys are distinct and nothing is overwritten, and in every step only a   *)
(* delete removes or changes a stored object.                               *)
C3_UploadsIndependent == [](C3_KeysDistinct) /\ [][C3_OnlyDeleteRemoves]_vars

C3_Witness ==
    \E c, d \in Slots :
      /\ c # d
      /\ calls[c].op = "uploadFile" /\ calls[d].op = "uploadFile"
      /\ calls[c].file = calls[d].file
      /\ calls[c].result.kind = "url" /\ calls[d].result.kind = "url"
      /\ {calls[c].key, calls[d].key} \subseteq DOMAIN objects

(* The four conditions of the resolver, in their documented order. *)
Condition(j, e) ==
    CASE j = 1 -> e.dev /\ e.keyFile
      [] j = 2 -> e.blob # "absent"
      [] j = 3 -> e.projectId /\ e.clientEmail /\ e.privateKey
      [] OTHER -> TRUE

(* C4: for every environment the resolver selects one branch, the first of  *)
(* (1) development and key file, (2) blob present, (3) the three discrete   *)
(* values, (4) ambient whose condition holds; the selection never changes.  *)
C4_FirstBranch ==
    storage.state # "unset" =>
      /\ storage.branch \in 1..4
      /\ Condition(storage.branch, env)
      /\ \A j \in 1..4 : j < storage.branch => ~Condition(j, env)

C4_SelectionFixed == storage.state # "unset" => storage' = storage /\ env' = env

(* C4: the branch selected is always the first whose condition holds, and  *)
(* once selected neither it nor the environment it was selected from changes.*)
C4_BranchPriority == [](C4_FirstBranch) /\ [][C4_SelectionFixed]_vars

C4_Witness ==
    /\ env.dev /\ env.keyFile /\ env.blob = "valid"
    /\ env.projectId /\ env.clientEmail /\ env.privateKey
    /\ storage.branch = 1
    /\ \E c \in Slots : calls[c].pc = "done"

Swallowing == {"testConnection", "deleteProfilePicture", "listBucketFiles",
               "listFilesByFolder"}

(* C5: testConnection, deleteProfilePicture and the two listings never      *)
(* raise: after a backend failure testConnection and deleteProfilePicture   *)
(* have returned false and a listing has returned normally; deleting a key  *)
(* that is not stored returns false, and deleteProfilePicture returns true  *)
(* only when the backend delete succeeded.                                  *)
C5_Swallowed ==
    \A c \in Slots :
      LET r == calls[c]
      IN  r.op \in Swallowing =>
            /\ r.result.kind # "raised"
            /\ BackendFailure(r) => r.pc = "done"
            /\ (r.pc = "done" /\ r.op \in {"testConnection", "deleteProfilePicture"}) =>
                 /\ r.result.kind = "bool"
                 /\ BackendFailure(r) => r.result.val = Bool(FALSE)
            /\ (r.pc = "done" /\ r.op \in {"listBucketFiles", "listFilesByFolder"}) =>
                 r.result = Returned("void", <<>>)
            /\ (r.op = "deleteProfilePicture" /\ r.result.val = Bool(TRUE)) =>
                 r.log = << <<"file.delete", "ok">> >>

C5_Witness ==
    \E c \in Slots :
      /\ calls[c].op = "deleteProfilePicture"
      /\ Has(calls[c], "file.delete", "notFound")
      /\ calls[c].result = Returned("bool", Bool(FALSE))

BucketOps == {"makeBucketPublic", "createBucketIfNotExists"}

(* The prefixes the code knows: the two it wraps upload errors with, and    *)
(* the three it only writes to the console.                                 *)
OperationPrefixes ==
    {PdfPrefix[1], PicturePrefix[1], "Failed to initialize Google Cloud Storage: ",
     "Error making bucket public: ", "Error creating bucket: "}

Wrapped(msg) == Len(msg) >= 2 /\ msg[1] \in OperationPrefixes

LastOutcome(r) == r.log[Len(r.log)][2]

(* C6, as claimed: every failure of the fatal class is raised to the caller *)
(* wrapped with a prefix that names the operation.                          *)
C6_AllWrapped ==
    /\ storage.state = "failed" => Wrapped(moduleError)
    /\ \A c \in Slots :
         LET r == calls[c]
         IN  /\ (r.op \in BucketOps /\ BackendFailure(r)) =>
                  (r.pc = "done" /\ r.result.kind = "raised" /\ Wrapped(r.result.val))
             /\ (IsUpload(r.op) /\ Has(r, "file.exists", "false")) =>
                  (r.pc = "done" /\ r.result.kind = "raised" /\ Wrapped(r.result.val))

(* C6, amended: every failure of the fatal class is raised to the caller;   *)
(* an upload's is wrapped with the upload's prefix, a failed credential     *)
(* resolution and a failed bucket creation or policy request are raised as  *)
(* the error the collaborator raised, with no prefix.                       *)
C6_Reraised ==
    /\ storage.state = "failed" => moduleError = SyntaxError
    /\ \A c \in Slots :
         LET r == calls[c]
         IN  /\ (r.op \in BucketOps /\ BackendFailure(r)) =>
                  /\ r.pc = "done"
                  /\ r.result = Raised(IF LastOutcome(r) = "conflict"
                                       THEN ConflictError ELSE ApiError)
             /\ (IsUpload(r.op) /\ Has(r, "file.exists", "false")) =>
                  /\ r.pc = "done"
                  /\ r.result = Raised(PrefixOf(r.op) \o
                        (IF r.op = "uploadFile" THEN FileNotFound ELSE PictureNotFound))
             /\ (IsUpload(r.op) /\ ConnectivityPassed(r) /\ BackendFailure(r)) =>
                  /\ r.pc = "done"
                  /\ r.result = Raised(PrefixOf(r.op) \o ApiError)

C6_Witness ==
    \E c \in Slots :
      /\ calls[c].op = "createBucketIfNotExists"
      /\ Has(calls[c], "iam.setPolicy", "error")
      /\ calls[c].result = Raised(ApiError)

(* The last portion of a path, stated directly: what lies between the last  *)
(* "/" that has something other than "/" after it, and the trailing "/"s.   *)
IsLastPortion(part, p) ==
    \E i, j \in 0..Len(p) :
      /\ i <= j
      /\ part = SubSeq(p, i + 1, j)
      /\ \A k \in (i + 1)..j : p[k] # SLASH
      /\ \A k \in (j + 1)..Len(p) : p[k] = SLASH
      /\ i = 0 \/ p[i] = SLASH
      /\ part = <<>> => \A k \in 1..Len(p) : p[k] = SLASH

(* The extension of a portion, stated directly: it starts at the last ".",  *)
(* which is not the portion's first character; ".." has none.               *)
IsExtension(ext, part) ==
    LET starts == {i \in 2..Len(part) :
                     /\ part[i] = DOT
                     /\ \A k \in (i + 1)..Len(part) : part[k] # DOT
                     /\ part # <<DOT, DOT>>}
    IN  IF starts = {} THEN ext = <<>>
        ELSE \E i \in starts : ext = SubSeq(part, i, Len(part))

(* <base>-<uuid><ext> for the original filename `file`. *)
IsUniqueName(name, file) ==
    \E n \in 1..Len(UuidPool) : \E b \in 0..Len(file) : \E e \in 0..Len(file) :
      LET base == SubSeq(name, 1, b)
          ext == SubSeq(name, b + 3, b + 2 + e)
      IN  /\ Len(name) = b + 2 + e
          /\ name[b + 1] = "-"
          /\ name[b + 2] = UuidPool[n]
          /\ IsLastPortion(base \o ext, file)
          /\ IsExtension(ext, base \o ext)

(* C7: a successful upload returns "https://storage.googleapis.com/" +      *)
(* "revault-files" + "/" + key, the key being the one the object was saved  *)
(* under: papers/<UTC day the save was issued>/<base>-<uuid><ext> for       *)
(* uploadFile, profiles/<userId>/<base>-<uuid><ext> for                     *)
(* uploadProfilePicture.                                                    *)
C7_UrlAndKeyLayout ==
    \A c \in Slots :
      LET r == calls[c]
          folder == IF r.op = "uploadFile"
                    THEN <<"papers", "/", DatePool[r.day + 1], "/">>
                    ELSE <<"profiles", "/">> \o r.user \o <<"/">>
      IN  r.result.kind = "url" =>
            /\ r.result.val = <<"https://storage.googleapis.com/", "revault-files", "/">>
                                \o r.key
            /\ r.key \in DOMAIN objects /\ objects[r.key] = c
            /\ Len(r.key) > Len(folder)
            /\ SubSeq(r.key, 1, Len(folder)) = folder
            /\ IsUniqueName(SubSeq(r.key, Len(folder) + 1, Len(r.key)), r.file)

C7_Witness ==
    \E c \in Slots :
      /\ calls[c].op = "uploadFile"
      /\ calls[c].file = <<"a", DOT, "a">>
      /\ calls[c].day = 1
      /\ calls[c].result.kind = "url"

(* C8: createBucketIfNotExists asks whether the bucket exists first; when   *)
(* it does, the call ends there, with no create and no policy request; when *)
(* it does not, the next request creates the bucket, with uniform access,   *)
(* and the policy request comes only after the creation succeeded; a call   *)
(* that then returns normally leaves the bucket existing, with uniform      *)
(* access, its bindings exactly objectViewer -> allUsers.                   *)
C8_CreateThenPublic ==
    \A c \in Slots :
      LET r == calls[c]
      IN  r.op = "createBucketIfNotExists" =>
            /\ Len(r.log) >= 1 => r.log[1][1] = "bucket.exists"
            /\ Has(r, "bucket.exists", "true") =>
                 (r.pc = "done" /\ Len(r.log) = 1 /\ r.result = Returned("void", <<>>))
            /\ \A i \in 1..Len(r.log) :
                 /\ r.log[i][1] = "createBucket" =>
                      (i = 2 /\ r.log[1] = <<"bucket.exists", "false">>)
                 /\ r.log[i][1] = "iam.setPolicy" =>
                      (i = 3 /\ r.log[2] = <<"createBucket", "ok">>)
            /\ Has(r, "createBucket", "ok") => (bucket.exists /\ bucket.uniform)
            /\ (r.pc = "done" /\ r.result.kind = "void" /\ Has(r, "bucket.exists", "false")) =>
                 /\ r.log = << <<"bucket.exists", "false">>, <<"createBucket", "ok">>,
                               <<"iam.setPolicy", "ok">> >>
                 /\ bucket = [exists |-> TRUE, uniform |-> TRUE,
                              bindings |-> {PublicBinding}]

C8_Witness ==
    \E c \in Slots :
      /\ calls[c].op = "createBucketIfNotExists"
      /\ Has(calls[c], "bucket.exists", "false")
      /\ calls[c].pc = "done"
      /\ calls[c].result.kind = "void"

(* C9, as claimed: in a run with a malformed blob in the environment no     *)
(* operation ever makes a backend request.                                  *)
C9_NeverAnyRequest ==
    env.blob = "malformed" => \A c \in Slots : calls[c].log = <<>>

(* C9, amended: in a run with a malformed blob in the environment, unless   *)
(* the process is in development mode with the key file present, client     *)
(* construction fails at startup and no operation ever runs.                *)
C9_MalformedBlobFatal ==
    (env.blob = "malformed" /\ ~(env.dev /\ env.keyFile)) =>
      /\ storage.state \in {"unset", "failed"}
      /\ storage.state = "failed" => moduleError = SyntaxError
      /\ \A c \in Slots : calls[c] = Idle

C9_Witness ==
    /\ env.blob = "malformed"
    /\ ~(env.dev /\ env.keyFile)
    /\ storage.state = "failed"

(* C10, as claimed: an upload that raised has left no object: every object  *)
(* written by an upload call belongs to a call that returned its URL.       *)
C10_NoObjectAfterFailure ==
    \A c \in Slots :
      (IsUpload(calls[c].op) /\ calls[c].result.kind = "raised") => WrittenBy(c) = {}

=============================================================================
